---- MODULE Spec2Model ----
(***************************************************************************)
(* Model of src/main.py: the POST /analyze_sales_call handler.             *)
(*                                                                         *)
(* Each request runs the handler body top to bottom.  The handler shares   *)
(* one thing with every other request served from the same working         *)
(* directory: the file at the fixed path temp_audio.m4a.  Requests are     *)
(* interleaved at the points where the handler touches that file, reads    *)
(* the clock, or makes a remote call (several worker processes serving the *)
(* same directory).  A remote call is one step: the file is opened, its    *)
(* bytes at that moment are sent, and the call returns or raises.  Local   *)
(* file operations follow POSIX semantics and fail only when the path is   *)
(* missing.                                                                *)
(*                                                                         *)
(* Two requests are observed in full.  Any number of further requests may  *)
(* run at the same time; of those only the effect on the shared file is    *)
(* kept (OtherSaveTemp, OtherRemove).                                      *)
(***************************************************************************)
EXTENDS Integers, Sequences, FiniteSets, TLC

\* ---------------------------------------------------------------- bounds
MaxClock == 1
MaxChoices == 2

\* The observed requests, and the name under which every other one goes.
Req == {"r1", "r2"}
Other == "other"
\* "Not set": a value unequal to every filename, content, key and text.
None == <<"None">>
\* No response yet.
NoResponse == [status |-> 0]

\* ------------------------------------------------------- inputs / values
\* Uploaded filenames, as sequences of characters.  Uploads are the names
\* the two observed requests draw from when they run side by side.
Uploads ==
    { <<"a", ".", "m", "4", "a">>,
      <<"a", ".", "m", "p", "3">>,
      <<"a", ".", "t", "x", "t">> }

\* One accepted and one rejected name, for runs followed to their end.
LiveNames ==
    { <<"a", ".", "m", "4", "a">>,
      <<"a", ".", "t", "x", "t">> }

\* The names two requests are tried with where the storage key matters:
\* same and different suffixes, same and different stems, and a name that
\* is nothing but a suffix.
KeyNames ==
    { <<"a", ".", "m", "4", "a">>,
      <<"b", ".", "m", "4", "a">>,
      <<"a", ".", "m", "p", "3">>,
      <<".", "o", "g", "g">> }

\* The names a single request is tried with.
Filenames ==
    Uploads \cup
    { <<"a", ".", "w", "a", "v">>,
      <<"a", ".", "o", "g", "g">>,
      <<".", "o", "g", "g">>,
      <<"a", ".", "M", "P", "3">>,
      <<"a", ".", "m", "p", "3", ".", "t", "x", "t">>,
      <<"d", "/", "b", ".", "w", "a", "v">>,
      <<"m", "p", "3">>,
      <<"a">> }

\* The tuple of suffixes of line 62.
AllowedSuffixes ==
    { <<".", "m", "4", "a">>, <<".", "m", "p", "3">>,
      <<".", "w", "a", "v">>, <<".", "o", "g", "g">> }

\* Content of the file part of request r: distinct per request.
Bytes(r) == <<"audio", r>>

\* Messages of the exceptions the remote services raise.
ErrMsgs == {"timeout", "rate_limit"}

\* The content of the i-th candidate the generation service returns to r.
Completion(r, i) == <<"feedback", r, i>>

\* str.endswith
EndsWith(s, suf) ==
    /\ Len(s) >= Len(suf)
    /\ SubSeq(s, Len(s) - Len(suf) + 1, Len(s)) = suf

\* Variant: the suffixes compared without their leading dot.
ValidFormat_nodot(fn) == \E suf \in AllowedSuffixes : EndsWith(fn, Tail(suf))

\* file.filename.endswith(('.m4a', '.mp3', '.wav', '.ogg'))
ValidFormat(fn) == \E suf \in AllowedSuffixes : EndsWith(fn, suf)

\* Largest index of character c in s, 0 when absent (str.rfind, 1-based).
RFind(s, c) ==
    LET hits == { i \in 1..Len(s) : s[i] = c }
    IN  IF hits = {} THEN 0 ELSE CHOOSE i \in hits : \A j \in hits : j <= i

\* os.path.splitext(p)[1]: the suffix from the last dot of the last path
\* component, empty when that component has no dot or only leading dots.
SplitExt(p) ==
    LET sepIndex == RFind(p, "/")
        dotIndex == RFind(p, ".")
    IN  IF /\ dotIndex > sepIndex
           /\ \E i \in (sepIndex + 1)..(dotIndex - 1) : p[i] # "."
        THEN SubSeq(p, dotIndex, Len(p))
        ELSE << >>

\* Variant: the key is the timestamp alone.
FileName_noext(ts, fn) == <<"audio_", ts, << >> >>

\* f"audio_{timestamp}{file_extension}" with the clock at second resolution.
FileName(ts, fn) == <<"audio_", ts, SplitExt(fn)>>

\* The speech-to-text service: the text of the audio it was sent.
Whisper(bytes) == <<"text", bytes[2]>>

\* A response detail is the sequence of the parts its f-string joins; each
\* part is a tuple of strings.

\* traceback.format_exc(): names the failing source position only.
Traceback(site) == <<"traceback", site>>

InvalidFormatDetail ==
    "Invalid file format. Please upload an audio file (m4a, mp3, wav, or ogg)."

\* Line 63-66.
Http400 == [status |-> 400, body |-> [detail |-> << <<InvalidFormatDetail>> >>]]

\* Lines 88-90: the storage failure, already an HTTPException.
StorageHttp500(e) ==
    [status |-> 500,
     body |-> [detail |-> << <<"Failed to upload recording to storage: ">>,
                             <<"Failed to upload to Supabase Storage: ">>,
                             <<e>>, Traceback("upload") >>]]

\* Lines 151-154: any other exception, wrapped.
UnexpectedHttp500(e, site) ==
    [status |-> 500,
     body |-> [detail |-> << <<"Unexpected error during processing: ">>,
                             <<e>>, Traceback(site) >>]]

\* Lines 144-147.
Http200(t, a) == [status |-> 200, body |-> [transcription |-> t, analysis |-> a]]

NoSuchFile == "No such file or directory: temp_audio.m4a"
IndexError == "list index out of range"

\* ----------------------------------------------------------------- state
VARIABLES
    pc,                 \* position of each request in the handler
    filename,           \* file.filename of each request
    temp_file,          \* content of temp_audio.m4a, None when absent
    clock,              \* wall clock, in seconds
    file_name,          \* storage key of each request
    storage,            \* blobs in the audio-files bucket
    sales_calls,        \* rows of the sales_calls table
    transcription_text, \* transcript.text of each request
    choices,            \* response.choices of each request, empty until returned
    analysis,           \* choices[0].message.content of each request
    response,           \* the HTTP response of each request
    sent,               \* bytes each request sent to each remote service
    calls,              \* number of attempts of each remote call per request
    error,              \* where each request raised and with which message
    env,                \* the environment of the process, after load_dotenv
    boot,               \* how far the module-level code of main.py has run
    log                 \* the steps each request has taken, in order

vars == <<pc, filename, temp_file, clock, file_name, storage, sales_calls,
          transcription_text, choices, analysis, response, sent, calls,
          error, env, boot, log>>

\* The state of the process start-up.
startup == <<env, boot>>

Services == {"upload", "transcribe", "generate", "insert"}

\* No request has arrived.
NoRequests ==
    /\ pc = [r \in Req |-> "Idle"]
    /\ filename = [r \in Req |-> None]
    /\ temp_file = None
    /\ clock = 0
    /\ file_name = [r \in Req |-> None]
    /\ storage = {}
    /\ sales_calls = {}
    /\ transcription_text = [r \in Req |-> None]
    /\ choices = [r \in Req |-> << >>]
    /\ analysis = [r \in Req |-> None]
    /\ response = [r \in Req |-> NoResponse]
    /\ sent = [r \in Req |-> [s \in {"upload", "transcribe"} |-> None]]
    /\ calls = [r \in Req |-> [s \in Services |-> 0]]
    /\ error = [r \in Req |-> None]
    /\ log = [r \in Req |-> << >>]

\* The names of line 22-26.
RequiredEnvVars == {"OPENAI_API_KEY", "SUPABASE_URL", "SUPABASE_KEY"}

\* What os.getenv gives for a name: nothing, the empty string, or a value.
Unset == "<unset>"
EnvValues == {Unset, "", "value"}

\* The process is up: the module-level code has run to the end.
Init ==
    /\ NoRequests
    /\ env = [k \in RequiredEnvVars |-> "value"]
    /\ boot = "serving"

\* The process is about to run the module-level code, in any environment.
InitStartup ==
    /\ NoRequests
    /\ env \in [RequiredEnvVars -> EnvValues]
    /\ boot = "load"

\* ------------------------------------------------------------- helpers
Step(r, to, ev) ==
    /\ pc' = [pc EXCEPT ![r] = to]
    /\ log' = [log EXCEPT ![r] = Append(@, ev)]

Called(r, s) == calls' = [calls EXCEPT ![r][s] = @ + 1]

\* Leaving the try block with an exception: the response is fixed, the
\* finally clause is still to run.
Raise(r, site, e, resp) ==
    /\ Step(r, "Finally", site)
    /\ error' = [error EXCEPT ![r] = <<site, e>>]
    /\ response' = [response EXCEPT ![r] = resp]

\* ------------------------------------------------------------- start-up
\* Variant: only a name that is not set at all counts as missing.
CheckEnv_unsetonly ==
    /\ boot = "load"
    /\ LET missing_vars == { k \in RequiredEnvVars : env[k] = Unset }
       IN  boot' = IF missing_vars # {} THEN "crashed" ELSE "configured"
    /\ UNCHANGED <<pc, filename, temp_file, clock, file_name, storage,
                   sales_calls, transcription_text, choices, analysis, response,
                   sent, calls, error, env, log>>

\* Lines 20-32: a name whose value is falsy is missing; any missing name
\* raises ValueError and the import of the module ends there.
CheckEnv ==
    /\ boot = "load"
    /\ LET missing_vars == { k \in RequiredEnvVars : env[k] \in {Unset, ""} }
       IN  boot' = IF missing_vars # {} THEN "crashed" ELSE "configured"
    /\ UNCHANGED <<pc, filename, temp_file, clock, file_name, storage,
                   sales_calls, transcription_text, choices, analysis, response,
                   sent, calls, error, env, log>>

\* Lines 34-44: the clients are built; a failure to reach Supabase raises
\* ValueError.
InitClients ==
    /\ boot = "configured"
    /\ boot' \in {"connected", "crashed"}
    /\ UNCHANGED <<pc, filename, temp_file, clock, file_name, storage,
                   sales_calls, transcription_text, choices, analysis, response,
                   sent, calls, error, env, log>>

\* Lines 46-56: the application object is created and the route registered.
CreateApp ==
    /\ boot = "connected"
    /\ boot' = "serving"
    /\ UNCHANGED <<pc, filename, temp_file, clock, file_name, storage,
                   sales_calls, transcription_text, choices, analysis, response,
                   sent, calls, error, env, log>>

\* ------------------------------------------------------------- actions
\* A second of wall-clock time passes.
Tick ==
    /\ clock < MaxClock
    /\ clock' = clock + 1
    /\ UNCHANGED <<pc, filename, temp_file, file_name, storage, sales_calls,
                   transcription_text, choices, analysis, response, sent,
                   calls, error, log>>
    /\ UNCHANGED startup

\* The framework hands an upload to the handler (line 57).
Receive(r, names) ==
    /\ boot = "serving"
    /\ pc[r] = "Idle"
    /\ \E fn \in names : filename' = [filename EXCEPT ![r] = fn]
    /\ Step(r, "Received", "receive")
    /\ UNCHANGED <<temp_file, clock, file_name, storage, sales_calls,
                   transcription_text, choices, analysis, response, sent, calls,
                   error>>
    /\ UNCHANGED startup

\* Lines 62-66.
Validate(r) ==
    /\ pc[r] = "Received"
    /\ IF ValidFormat(filename[r])
       THEN /\ Step(r, "Validated", "validate")
            /\ UNCHANGED <<response, error>>
       ELSE Raise(r, "validate", InvalidFormatDetail, Http400)
    /\ UNCHANGED <<filename, temp_file, clock, file_name, storage, sales_calls,
                   transcription_text, choices, analysis, sent, calls>>
    /\ UNCHANGED startup

\* Variant: the upload is written before the format is validated.
SaveTemp_early(r) ==
    /\ pc[r] = "Received"
    /\ \A i \in DOMAIN log[r] : log[r][i] # "save"
    /\ temp_file' = Bytes(r)
    /\ Step(r, "Received", "save")
    /\ UNCHANGED <<filename, clock, file_name, storage, sales_calls,
                   transcription_text, choices, analysis, response, sent, calls,
                   error>>
    /\ UNCHANGED startup

\* Lines 68-71: open(temp_file_path, "wb") and copy the upload into it.
SaveTemp(r) ==
    /\ pc[r] = "Validated"
    /\ temp_file' = Bytes(r)
    /\ Step(r, "Saved", "save")
    /\ UNCHANGED <<filename, clock, file_name, storage, sales_calls,
                   transcription_text, choices, analysis, response, sent, calls,
                   error>>
    /\ UNCHANGED startup

\* Lines 73-77.
GenerateFileName(r) ==
    /\ pc[r] = "Saved"
    /\ file_name' = [file_name EXCEPT ![r] = FileName(clock, filename[r])]
    /\ Step(r, "Named", "name")
    /\ UNCHANGED <<filename, temp_file, clock, storage, sales_calls,
                   transcription_text, choices, analysis, response, sent, calls,
                   error>>
    /\ UNCHANGED startup

\* Variant: a failed upload is logged and the handler carries on.
UploadToStorage_swallow(r) ==
    /\ pc[r] = "Named"
    /\ temp_file # None
    /\ \E e \in ErrMsgs : error' = [error EXCEPT ![r] = <<"upload", e>>]
    /\ sent' = [sent EXCEPT ![r]["upload"] = temp_file]
    /\ Called(r, "upload")
    /\ Step(r, "Stored", "upload")
    /\ UNCHANGED <<filename, temp_file, clock, file_name, storage, sales_calls,
                   transcription_text, choices, analysis, response>>
    /\ UNCHANGED startup

\* Lines 79-90: open the temp file and upload it to the bucket.
UploadToStorage(r) ==
    /\ pc[r] = "Named"
    /\ \/ \* open(temp_file_path, "rb") raises: the file is gone
          /\ temp_file = None
          /\ Raise(r, "upload_open", NoSuchFile, StorageHttp500(NoSuchFile))
          /\ UNCHANGED <<storage, sent, calls>>
       \/ \* the upload call returns
          /\ temp_file # None
          /\ storage' = storage \cup
                 {[key |-> file_name[r], bytes |-> temp_file, req |-> r]}
          /\ sent' = [sent EXCEPT ![r]["upload"] = temp_file]
          /\ Called(r, "upload")
          /\ Step(r, "Stored", "upload")
          /\ UNCHANGED <<response, error>>
       \/ \* the upload call raises
          /\ temp_file # None
          /\ \E e \in ErrMsgs : Raise(r, "upload", e, StorageHttp500(e))
          /\ sent' = [sent EXCEPT ![r]["upload"] = temp_file]
          /\ Called(r, "upload")
          /\ UNCHANGED storage
    /\ UNCHANGED <<filename, temp_file, clock, file_name, sales_calls,
                   transcription_text, choices, analysis>>
    /\ UNCHANGED startup

\* Variant: a failed transcription is tried again.
Transcribe_retry(r) ==
    /\ pc[r] = "Stored"
    /\ temp_file # None
    /\ calls[r]["transcribe"] < 3
    /\ sent' = [sent EXCEPT ![r]["transcribe"] = temp_file]
    /\ Called(r, "transcribe")
    /\ \/ /\ transcription_text' =
                 [transcription_text EXCEPT ![r] = Whisper(temp_file)]
          /\ Step(r, "Transcribed", "transcribe")
       \/ /\ UNCHANGED <<transcription_text, pc, log>>
    /\ UNCHANGED <<filename, temp_file, clock, file_name, storage, sales_calls,
                   choices, analysis, response, error>>
    /\ UNCHANGED startup

\* Variant: a failed transcription yields an empty transcript and the
\* handler carries on.
Transcribe_continue(r) ==
    /\ pc[r] = "Stored"
    /\ temp_file # None
    /\ \E e \in ErrMsgs : error' = [error EXCEPT ![r] = <<"transcribe", e>>]
    /\ transcription_text' = [transcription_text EXCEPT ![r] = <<"text", "">>]
    /\ sent' = [sent EXCEPT ![r]["transcribe"] = temp_file]
    /\ Called(r, "transcribe")
    /\ Step(r, "Transcribed", "transcribe")
    /\ UNCHANGED <<filename, temp_file, clock, file_name, storage, sales_calls,
                   choices, analysis, response>>
    /\ UNCHANGED startup

\* Lines 92-101: open the temp file and transcribe it.
Transcribe(r) ==
    /\ pc[r] = "Stored"
    /\ \/ /\ temp_file = None
          /\ Raise(r, "transcribe_open", NoSuchFile,
                   UnexpectedHttp500(NoSuchFile, "transcribe_open"))
          /\ UNCHANGED <<transcription_text, sent, calls>>
       \/ /\ temp_file # None
          /\ transcription_text' =
                 [transcription_text EXCEPT ![r] = Whisper(temp_file)]
          /\ sent' = [sent EXCEPT ![r]["transcribe"] = temp_file]
          /\ Called(r, "transcribe")
          /\ Step(r, "Transcribed", "transcribe")
          /\ UNCHANGED <<response, error>>
       \/ /\ temp_file # None
          /\ \E e \in ErrMsgs :
                 Raise(r, "transcribe", e, UnexpectedHttp500(e, "transcribe"))
          /\ sent' = [sent EXCEPT ![r]["transcribe"] = temp_file]
          /\ Called(r, "transcribe")
          /\ UNCHANGED transcription_text
    /\ UNCHANGED <<filename, temp_file, clock, file_name, storage, sales_calls,
                   choices, analysis>>
    /\ UNCHANGED startup

\* Variant: the last candidate is taken instead of the first.
Generate_last(r) ==
    /\ pc[r] = "Transcribed"
    /\ Called(r, "generate")
    /\ \E k \in 1..MaxChoices :
          LET cs == [i \in 1..k |-> Completion(r, i)]
          IN  /\ choices' = [choices EXCEPT ![r] = cs]
              /\ analysis' = [analysis EXCEPT ![r] = cs[Len(cs)]]
    /\ Step(r, "Analyzed", "generate")
    /\ UNCHANGED <<filename, temp_file, clock, file_name, storage, sales_calls,
                   transcription_text, sent, response, error>>
    /\ UNCHANGED startup

\* Variant: the error detail of a failed generation quotes the prompt.
Generate_leak(r) ==
    /\ pc[r] = "Transcribed"
    /\ Called(r, "generate")
    /\ \E e \in ErrMsgs :
          Raise(r, "generate", e,
                [status |-> 500,
                 body |-> [detail |-> << <<"Unexpected error during processing: ">>,
                                         <<e>>, transcription_text[r] >>]])
    /\ UNCHANGED <<filename, temp_file, clock, file_name, storage, sales_calls,
                   transcription_text, sent, choices, analysis>>
    /\ UNCHANGED startup

\* Lines 103-131: build the prompt, call the model, take choices[0].
Generate(r) ==
    /\ pc[r] = "Transcribed"
    /\ Called(r, "generate")
    /\ \/ \* the call returns a list of candidates
          \E k \in 0..MaxChoices :
              LET cs == [i \in 1..k |-> Completion(r, i)]
              IN  /\ choices' = [choices EXCEPT ![r] = cs]
                  /\ IF Len(cs) > 0
                     THEN /\ analysis' = [analysis EXCEPT ![r] = cs[1]]
                          /\ Step(r, "Analyzed", "generate")
                          /\ UNCHANGED <<response, error>>
                     ELSE /\ Raise(r, "choices", IndexError,
                                   UnexpectedHttp500(IndexError, "choices"))
                          /\ UNCHANGED analysis
       \/ \* the call raises
          /\ \E e \in ErrMsgs :
                 Raise(r, "generate", e, UnexpectedHttp500(e, "generate"))
          /\ UNCHANGED <<choices, analysis>>
    /\ UNCHANGED <<filename, temp_file, clock, file_name, storage, sales_calls,
                   transcription_text, sent>>
    /\ UNCHANGED startup

\* Variant: a failed insert is logged and the payload returned all the same.
Insert_swallow(r) ==
    /\ pc[r] = "Analyzed"
    /\ Called(r, "insert")
    /\ Step(r, "Persisted", "insert")
    /\ UNCHANGED <<filename, temp_file, clock, file_name, storage, sales_calls,
                   transcription_text, choices, analysis, sent, response, error>>
    /\ UNCHANGED startup

\* Variant: a failed insert deletes the blob the request uploaded.
Insert_compensate(r) ==
    /\ pc[r] = "Analyzed"
    /\ Called(r, "insert")
    /\ \/ /\ sales_calls' = sales_calls \cup
                 {[transcription |-> transcription_text[r],
                   analysis |-> analysis[r],
                   created_at |-> clock, req |-> r]}
          /\ Step(r, "Persisted", "insert")
          /\ UNCHANGED <<response, error, storage>>
       \/ /\ \E e \in ErrMsgs :
                 Raise(r, "insert", e, UnexpectedHttp500(e, "insert"))
          /\ storage' = { b \in storage : b.req # r }
          /\ UNCHANGED sales_calls
    /\ UNCHANGED <<filename, temp_file, clock, file_name,
                   transcription_text, choices, analysis, sent>>
    /\ UNCHANGED startup

\* Lines 133-142: insert the row.
Insert(r) ==
    /\ pc[r] = "Analyzed"
    /\ Called(r, "insert")
    /\ \/ /\ sales_calls' = sales_calls \cup
                 {[transcription |-> transcription_text[r],
                   analysis |-> analysis[r],
                   created_at |-> clock, req |-> r]}
          /\ Step(r, "Persisted", "insert")
          /\ UNCHANGED <<response, error>>
       \/ /\ \E e \in ErrMsgs :
                 Raise(r, "insert", e, UnexpectedHttp500(e, "insert"))
          /\ UNCHANGED sales_calls
    /\ UNCHANGED <<filename, temp_file, clock, file_name, storage,
                   transcription_text, choices, analysis, sent>>
    /\ UNCHANGED startup

\* Lines 144-147: return the payload; the finally clause is still to run.
Respond(r) ==
    /\ pc[r] = "Persisted"
    /\ response' = [response EXCEPT
                        ![r] = Http200(transcription_text[r], analysis[r])]
    /\ Step(r, "Finally", "respond")
    /\ UNCHANGED <<filename, temp_file, clock, file_name, storage, sales_calls,
                   transcription_text, choices, analysis, sent, calls,
                   error>>
    /\ UNCHANGED startup

\* Line 156: os.path.exists(temp_file_path).
CheckExists(r) ==
    /\ pc[r] = "Finally"
    /\ IF temp_file # None
       THEN Step(r, "Remove", "cleanup")
       ELSE Step(r, "Done", "cleanup")
    /\ UNCHANGED <<filename, temp_file, clock, file_name, storage, sales_calls,
                   transcription_text, choices, analysis, response, sent, calls,
                   error>>
    /\ UNCHANGED startup

\* Variant: the file is left in place.
Remove_keep(r) ==
    /\ pc[r] = "Remove"
    /\ pc' = [pc EXCEPT ![r] = "Done"]
    /\ UNCHANGED <<log, filename, temp_file, clock, file_name, storage,
                   sales_calls, transcription_text, choices, analysis, response,
                   sent, calls, error>>
    /\ UNCHANGED startup

\* Variant: the removal waits for the file to be there.
Remove_wait(r) ==
    /\ pc[r] = "Remove"
    /\ temp_file # None
    /\ temp_file' = None
    /\ pc' = [pc EXCEPT ![r] = "Done"]
    /\ UNCHANGED <<log, filename, clock, file_name, storage, sales_calls,
                   transcription_text, choices, analysis, response, sent, calls,
                   error>>
    /\ UNCHANGED startup

\* Lines 157-161: os.remove(temp_file_path); a failure is logged and dropped.
Remove(r) ==
    /\ pc[r] = "Remove"
    /\ temp_file' = None
    /\ pc' = [pc EXCEPT ![r] = "Done"]
    /\ UNCHANGED <<log, filename, clock, file_name, storage, sales_calls,
                   transcription_text, choices, analysis, response, sent, calls,
                   error>>
    /\ UNCHANGED startup

\* Lines 68-71 as run by a request that is not observed.
OtherSaveTemp ==
    /\ temp_file # Bytes(Other)
    /\ temp_file' = Bytes(Other)
    /\ UNCHANGED <<pc, filename, clock, file_name, storage, sales_calls,
                   transcription_text, choices, analysis, response, sent,
                   calls, error, log>>
    /\ UNCHANGED startup

\* Lines 155-161 as run by a request that is not observed.
OtherRemove ==
    /\ temp_file # None
    /\ temp_file' = None
    /\ UNCHANGED <<pc, filename, clock, file_name, storage, sales_calls,
                   transcription_text, choices, analysis, response, sent,
                   calls, error, log>>
    /\ UNCHANGED startup

\* The handler body, lines 61-161.
Handle(r) ==
    \/ Validate(r)
    \/ SaveTemp(r)
    \/ GenerateFileName(r)
    \/ UploadToStorage(r)
    \/ Transcribe(r)
    \/ Generate(r)
    \/ Insert(r)
    \/ Respond(r)
    \/ CheckExists(r)
    \/ Remove(r)

analyze_sales_call(r) ==
    \/ Receive(r, Uploads)
    \/ Handle(r)

\* The requests, all handled within one second of wall-clock time.
Next ==
    \/ \E r \in Req : analyze_sales_call(r)
    \/ OtherSaveTemp
    \/ OtherRemove

Spec == Init /\ [][Next]_vars

\* Every call the handler makes returns or raises, and the handler then goes
\* on: a request that has a step to take is not left waiting forever.
Fairness == \A r \in Req : WF_vars(Handle(r))

NextLive ==
    \/ \E r \in Req :
          \/ Receive(r, LiveNames)
          \/ Handle(r)
    \/ OtherSaveTemp
    \/ OtherRemove

SpecLive == Init /\ [][NextLive]_vars /\ Fairness

\* The same with the clock advancing.
NextClock ==
    \/ Tick
    \/ \E r \in Req : analyze_sales_call(r)
    \/ OtherSaveTemp
    \/ OtherRemove

SpecClock == Init /\ [][NextClock]_vars

\* One observed request, tried with every filename, among any number of
\* requests that are not observed.
NextFormat ==
    \/ Receive("r1", Filenames)
    \/ Handle("r1")
    \/ OtherSaveTemp
    \/ OtherRemove

SpecFormat == Init /\ [][NextFormat]_vars

\* The process from its start, in any environment, then serving a request.
NextStartup ==
    \/ CheckEnv
    \/ InitClients
    \/ CreateApp
    \/ analyze_sales_call("r1")
    \/ OtherSaveTemp
    \/ OtherRemove

SpecStartup == InitStartup /\ [][NextStartup]_vars

\* Two requests with the clock advancing, tried with the names of KeyNames,
\* each followed up to the storage upload, the last use of its key.
NextKeys ==
    \/ Tick
    \/ \E r \in Req :
          \/ Receive(r, KeyNames)
          \/ Validate(r)
          \/ SaveTemp(r)
          \/ GenerateFileName(r)
          \/ UploadToStorage(r)
    \/ OtherSaveTemp
    \/ OtherRemove

SpecKeys == Init /\ [][NextKeys]_vars

\* ================================================================ claims
Status(r) == response[r].status
Completed(r) == pc[r] = "Done"
LeftTry(r) == pc[r] \in {"Finally", "Remove", "Done"}
\* Request r raised at the given source position.
Failed(r, site) == error[r] # None /\ error[r][1] = site
NoRemoteCall(r) == \A s \in Services : calls[r][s] = 0
Blobs(r) == { b \in storage : b.req = r }
Rows(r) == { c \in sales_calls : c.req = r }
Logged(r, ev) == \E i \in DOMAIN log[r] : log[r][i] = ev

\* The filename ends with .m4a, .mp3, .wav or .ogg, spelled out.
HasAudioSuffix(fn) ==
    /\ Len(fn) >= 4
    /\ LET n == Len(fn)
       IN  /\ fn[n - 3] = "."
           /\ <<fn[n - 2], fn[n - 1], fn[n]>> \in
                  { <<"m", "4", "a">>, <<"m", "p", "3">>,
                    <<"w", "a", "v">>, <<"o", "g", "g">> }

\* C1: a request whose filename ends with .m4a, .mp3, .wav or .ogg passes
\* validation and goes on to save the upload; any other request ends with
\* HTTP 400, detail "Invalid file format...", and makes none of the four
\* remote calls.
C1_ExtensionValidation ==
    \A r \in Req :
        pc[r] \notin {"Idle", "Received"} =>
            IF HasAudioSuffix(filename[r])
            THEN /\ Status(r) # 400
                 /\ ~Failed(r, "validate")
                 /\ Len(log[r]) = 2 => pc[r] = "Validated"
                 /\ Len(log[r]) > 2 => log[r][3] = "save"
            ELSE /\ response[r] =
                        [status |-> 400,
                         body |-> [detail |-> << <<"Invalid file format. Please upload an audio file (m4a, mp3, wav, or ogg).">> >>]]
                 /\ NoRemoteCall(r)
                 /\ sent[r]["upload"] = None /\ sent[r]["transcribe"] = None
                 /\ Blobs(r) = {} /\ Rows(r) = {}

C1_Witness ==
    \E r \in Req :
        /\ Completed(r) /\ filename[r] = <<"m", "p", "3">>
        /\ Status(r) = 400 /\ NoRemoteCall(r)

\* C2: once a request has completed, the temporary file written for its
\* upload no longer exists, whatever the outcome.
C2_TempFileRemoved ==
    \A r \in Req : Completed(r) => temp_file # Bytes(r)

C2_Witness ==
    \E r, q \in Req :
        /\ Completed(r) /\ Status(r) = 200
        /\ Completed(q) /\ Status(q) = 500 /\ Logged(q, "save")

\* The temp file of r is in use from the save to the last read of it.
InUse(r) == pc[r] \in {"Saved", "Named", "Stored"}

\* C3: under every interleaving, each request sends its own bytes to the
\* storage upload and to the transcription call, its temp file is neither
\* overwritten nor deleted while in use, and its response carries the
\* transcript of its own audio.
C3_Isolation ==
    \A r \in Req :
        /\ sent[r]["upload"] \in {None, Bytes(r)}
        /\ sent[r]["transcribe"] \in {None, Bytes(r)}
        /\ InUse(r) => temp_file = Bytes(r)
        /\ Status(r) = 200 => response[r].body.transcription = <<"text", r>>

\* C4: a 200 is returned only if storage upload, transcription, generation
\* and record insert all succeeded, and then carries both transcription and
\* analysis; every other outcome is an error response with neither field,
\* also when the insert fails after transcript and analysis were produced.
C4_NoPartialResults ==
    \A r \in Req :
        /\ LeftTry(r) => Status(r) \in {200, 400, 500}
        /\ Status(r) = 200 =>
              /\ error[r] = None
              /\ Blobs(r) # {} /\ Rows(r) # {}
              /\ transcription_text[r] # None /\ analysis[r] # None
              /\ \A s \in Services : calls[r][s] = 1
              /\ DOMAIN response[r].body = {"transcription", "analysis"}
        /\ error[r] # None => Status(r) \in {400, 500}
        /\ Status(r) \in {400, 500} => DOMAIN response[r].body = {"detail"}
        /\ (calls[r]["insert"] = 1 /\ Rows(r) = {} /\ LeftTry(r)) =>
              Status(r) = 500

C4_Witness ==
    \E r, q \in Req :
        /\ Completed(r) /\ Failed(r, "insert") /\ Status(r) = 500
        /\ transcription_text[r] # None /\ analysis[r] # None
        /\ Completed(q) /\ Status(q) = 200

\* C5: when the transcription call fails, the response is HTTP 500 without
\* an analysis key, and neither the generation call nor the record insert is
\* attempted.
C5_TranscriptionFailure ==
    \A r \in Req :
        Failed(r, "transcribe") =>
            /\ Status(r) = 500
            /\ "analysis" \notin DOMAIN response[r].body
            /\ calls[r]["generate"] = 0 /\ calls[r]["insert"] = 0
            /\ analysis[r] = None /\ Rows(r) = {}

C5_Witness ==
    \E r \in Req : Completed(r) /\ Failed(r, "transcribe")

\* C6: when transcription succeeds and the generation call fails, the
\* response is HTTP 500, no part of its body is the transcript, and two
\* requests with different transcripts and the same generation error get
\* identical bodies.
C6_NoTranscriptLeak ==
    /\ \A r \in Req :
          Failed(r, "generate") =>
              /\ Status(r) = 500
              /\ transcription_text[r] # None
              /\ \A i \in DOMAIN response[r].body.detail :
                     response[r].body.detail[i] # transcription_text[r]
    /\ \A r, q \in Req :
          (Failed(r, "generate") /\ Failed(q, "generate")
               /\ error[r] = error[q]) =>
              response[r].body = response[q].body

C6_Witness ==
    \E r, q \in Req :
        /\ Failed(r, "generate") /\ Failed(q, "generate")
        /\ error[r] = error[q]
        /\ transcription_text[r] # transcription_text[q]

\* C7: when the storage upload raises, the response is HTTP 500, no
\* transcription call, generation call or record insert is made, and the
\* temp file is still cleaned up.
C7_StorageFailure ==
    \A r \in Req :
        Failed(r, "upload") =>
            /\ Status(r) = 500
            /\ calls[r]["transcribe"] = 0 /\ calls[r]["generate"] = 0
            /\ calls[r]["insert"] = 0
            /\ sent[r]["transcribe"] = None
            /\ transcription_text[r] = None /\ Rows(r) = {}
            /\ Completed(r) => (Logged(r, "cleanup") /\ temp_file # Bytes(r))

C7_Witness ==
    \E r \in Req : Completed(r) /\ Failed(r, "upload")

\* The step a log entry belongs to.
StepOf(ev) ==
    CASE ev = "upload_open" -> "upload"
      [] ev = "transcribe_open" -> "transcribe"
      [] ev = "choices" -> "generate"
      [] OTHER -> ev

\* The entries of every log are in the order given by rank: each entry
\* ranks below the next one.
InOrder(rank) ==
    \A r \in Req : \A i \in 1..(Len(log[r]) - 1) :
        rank[StepOf(log[r][i])] < rank[StepOf(log[r][i + 1])]

ClaimedRank ==
    [receive |-> 1, save |-> 2, validate |-> 3, name |-> 4, upload |-> 5,
     transcribe |-> 6, generate |-> 7, insert |-> 8, respond |-> 9,
     cleanup |-> 10]

ActualRank ==
    [receive |-> 1, validate |-> 2, save |-> 3, name |-> 4, upload |-> 5,
     transcribe |-> 6, generate |-> 7, insert |-> 8, respond |-> 9,
     cleanup |-> 10]

\* No remote call is made before the temp file was written.
SavedBeforeRemote ==
    \A r \in Req : ~NoRemoteCall(r) => (Len(log[r]) >= 3 /\ log[r][3] = "save")

\* C8 as claimed: the steps of a request happen in the order receive, save
\* to temp storage, validate, upload, transcribe, generate, insert, respond,
\* cleanup, the upload being written before the format is validated.
C8_ClaimedOrder == InOrder(ClaimedRank) /\ SavedBeforeRemote

\* C8 as amended: the steps of a request happen in the order receive,
\* validate, save to temp storage, upload, transcribe, generate, insert,
\* respond, cleanup; a successful request takes all of them; the format is
\* validated before the upload is written, and the temp file is written
\* before any remote call begins.
C8_ActualOrder ==
    /\ InOrder(ActualRank)
    /\ SavedBeforeRemote
    /\ \A r \in Req :
          /\ Logged(r, "save") => HasAudioSuffix(filename[r])
          /\ (Completed(r) /\ Status(r) = 200) =>
                 log[r] = <<"receive", "validate", "save", "name", "upload",
                            "transcribe", "generate", "insert", "respond",
                            "cleanup">>

C8_Witness ==
    \E r, q \in Req :
        /\ Completed(r) /\ Status(r) = 200
        /\ Completed(q) /\ Status(q) = 400

\* The remote call s of request r has returned what it was made for.
HasResult(r, s) ==
    CASE s = "upload" -> Blobs(r) # {}
      [] s = "transcribe" -> transcription_text[r] # None
      [] s = "generate" -> analysis[r] # None
      [] s = "insert" -> Rows(r) # {}

ServiceRank == [upload |-> 1, transcribe |-> 2, generate |-> 3, insert |-> 4]

\* C9: each of the four remote calls is attempted at most once per request,
\* and the first failed attempt leaves the request failed with HTTP 500 and
\* no later remote call.
C9_NoRetry ==
    \A r \in Req : \A s \in Services :
        /\ calls[r][s] <= 1
        /\ Failed(r, s) =>
              /\ calls[r][s] = 1
              /\ Status(r) = 500 /\ LeftTry(r)
              /\ \A t \in Services :
                     ServiceRank[t] > ServiceRank[s] => calls[r][t] = 0
        /\ (calls[r][s] = 1 /\ ~HasResult(r, s)) =>
              /\ Status(r) = 500 /\ LeftTry(r)
              /\ \A t \in Services :
                     ServiceRank[t] > ServiceRank[s] => calls[r][t] = 0

C9_Witness ==
    \E r \in Req :
        /\ Completed(r) /\ Failed(r, "generate")
        /\ calls[r] = [upload |-> 1, transcribe |-> 1, generate |-> 1,
                       insert |-> 0]

\* C10: the 200 body is exactly {transcription: T, analysis: A}, T the text
\* the request's transcription call returned and A the content of the first
\* candidate its generation call returned, however many candidates there
\* were; the row the request inserted holds the same T and A.
C10_SuccessPayload ==
    \A r \in Req :
        Status(r) = 200 =>
            /\ response[r].body =
                   [transcription |-> <<"text", sent[r]["transcribe"][2]>>,
                    analysis |-> choices[r][1]]
            /\ Cardinality(Rows(r)) = 1
            /\ \A c \in Rows(r) :
                   /\ c.transcription = response[r].body.transcription
                   /\ c.analysis = response[r].body.analysis

C10_Witness ==
    \E r \in Req : Status(r) = 200 /\ Len(choices[r]) >= 2

\* C11: when OPENAI_API_KEY, SUPABASE_URL or SUPABASE_KEY is absent or
\* empty, start-up fails at once: the clients and the application object are
\* never created, and no request is ever handled by such a process.
C11_StartupNeedsConfig ==
    /\ (\E k \in {"OPENAI_API_KEY", "SUPABASE_URL", "SUPABASE_KEY"} :
            env[k] \in {"<unset>", ""}) =>
           /\ boot \in {"load", "crashed"}
           /\ \A r \in Req : pc[r] = "Idle"
    /\ (\E r \in Req : pc[r] # "Idle") => boot = "serving"

C11_Witness ==
    /\ boot = "crashed"
    /\ env["OPENAI_API_KEY"] = "value" /\ env["SUPABASE_URL"] = "value"
    /\ env["SUPABASE_KEY"] = ""

\* The storage upload of r has returned without raising.
UploadReturned(r) == Logged(r, "upload") /\ ~Failed(r, "upload")

\* C12: a blob uploaded by a request stays in the bucket when a later step
\* of the request fails, with no row for the request and no compensating
\* delete; every row in sales_calls belongs to a request whose upload
\* returned.
C12_NoTransactionalLinkage ==
    /\ \A r \in Req :
          /\ UploadReturned(r) => Blobs(r) # {}
          /\ (UploadReturned(r) /\ error[r] # None) =>
                 /\ Rows(r) = {}
                 /\ calls[r]["upload"] = 1
    /\ \A c \in sales_calls : UploadReturned(c.req) /\ Blobs(c.req) # {}

C12_Witness ==
    \E r, q \in Req :
        /\ Completed(r) /\ Failed(r, "insert")
        /\ Blobs(r) # {} /\ Rows(r) = {}
        /\ Completed(q) /\ Failed(q, "transcribe") /\ Blobs(q) # {}

\* The extension of a filename: the part from the last dot of its last path
\* component on, nothing when that component has no dot after its first
\* character that is not a dot.
Extension(fn) ==
    LET n == Len(fn)
        InLast(i) == \A j \in i..n : fn[j] # "/"
        dots == { i \in 1..n :
                     /\ fn[i] = "." /\ InLast(i)
                     /\ \E j \in 1..(i - 1) : fn[j] # "." /\ InLast(j) }
    IN  IF dots = {} THEN << >>
        ELSE LET d == CHOOSE i \in dots : \A j \in dots : j <= i
             IN  [k \in 1..(n - d + 1) |-> fn[d + k - 1]]

Named(r) == file_name[r] # None

FailNext(r) ==
    /\ Handle(r)
    /\ pc'[r] = "Finally"
    /\ response'[r].status # 200

\* The steps between validation and the storage upload, lines 68-77: the
\* request is still Validated and each of them can always be taken.
StillValidated(r) ==
    /\ pc[r] = "Validated" => ENABLED SaveTemp(r) /\ ~ENABLED FailNext(r)
    /\ pc[r] = "Saved" => ENABLED GenerateFileName(r) /\ ~ENABLED FailNext(r)

\* C14 as stated: from Received (with a filename that fails validation),
\* Validated, Stored, Transcribed, Analyzed and Persisted the request's next
\* transition can be to Failed.
C14_FailedFromEvery ==
    \A r \in Req :
        /\ (pc[r] = "Received" /\ ~HasAudioSuffix(filename[r])) =>
               ENABLED FailNext(r)
        /\ StillValidated(r)
        /\ pc[r] \in {"Named", "Stored", "Transcribed", "Analyzed",
                      "Persisted"} => ENABLED FailNext(r)

\* C14: from Received the next transition can be to Failed exactly when the
\* filename fails validation; from Validated (once the upload is next),
\* Stored, Transcribed and Analyzed it can always be to Failed; from
\* Persisted it cannot: the only step left in the try block is the return.
C14_FailedFromAllButPersisted ==
    \A r \in Req :
        /\ pc[r] = "Received" =>
               (ENABLED FailNext(r) <=> ~HasAudioSuffix(filename[r]))
        /\ StillValidated(r)
        /\ pc[r] \in {"Named", "Stored", "Transcribed", "Analyzed"} =>
               ENABLED FailNext(r)
        /\ pc[r] = "Persisted" =>
               /\ ~ENABLED FailNext(r)
               /\ ENABLED Respond(r)

C14_Witness ==
    \E r, q \in Req :
        /\ pc[r] = "Persisted" /\ error[r] = None
        /\ LeftTry(q) /\ Failed(q, "insert") /\ Status(q) = 500

\* C15: a request whose filename fails validation leaves the temp file as it
\* is in every step it takes, cleanup included.
C15_RejectedLeavesTempFile ==
    [][ \A r \in Req :
            (/\ pc[r] # "Idle"
             /\ ~HasAudioSuffix(filename[r])
             /\ pc'[r] # pc[r]) => temp_file' = temp_file
      ]_vars

\* What the handler holds for one request.
Own(r) ==
    <<pc[r], filename[r], file_name[r], transcription_text[r], choices[r],
      analysis[r], response[r], sent[r], calls[r], error[r], log[r]>>

Cleanups(r) == Cardinality({ i \in DOMAIN log[r] : log[r][i] = "cleanup" })

\* C16: a request that was received completes; a completed request has
\* answered 200 without an error or 400 or 500 with one, and has run its
\* cleanup exactly once; it takes no step after that; and a request in
\* flight always has a step of its own to take, whatever the others do.
C16_Termination ==
    /\ \A r \in Req : (pc[r] = "Received") ~> Completed(r)
    /\ [](\A r \in Req :
             /\ Completed(r) =>
                    /\ Status(r) \in {200, 400, 500}
                    /\ Status(r) = 200 <=> error[r] = None
                    /\ Cleanups(r) = 1
                    /\ ~ENABLED analyze_sales_call(r)
             /\ Cleanups(r) <= 1
             /\ pc[r] \notin {"Idle", "Done"} => ENABLED Handle(r))
    /\ [][\A r \in Req : Completed(r) => Own(r)' = Own(r)]_vars

C16_Witness ==
    \E r, q \in Req :
        /\ Completed(r) /\ Status(r) = 200 /\ Cleanups(r) = 1
        /\ Completed(q) /\ Status(q) = 500 /\ Failed(q, "upload_open")

====
